---- MODULE Spec2Model ----
(***************************************************************************)
(* Medication reminder (src/src/main.rs): the schedule store               *)
(* (MedicationSchedule), the reminder thread that sends one tick per       *)
(* minute over an mpsc channel, and the menu loop of main that polls the   *)
(* channel, prints reminders and runs the five menu commands.              *)
(*                                                                         *)
(* Times are seconds.  `now` is the local clock as seconds since midnight  *)
(* of the first modelled day; a NaiveTime is seconds since midnight.       *)
(* Text read from stdin is a sequence of one-character strings.            *)
(***************************************************************************)
EXTENDS Integers, Sequences, FiniteSets, TLC

VARIABLES
    medications,  \* schedule.medications: date key -> sequence of Medication
    now,          \* Local::now(), seconds since midnight of day 0
    chan,         \* the mpsc channel: ticks sent and not yet received
    tickerPc,     \* reminder thread: "emit", "sleep" or "panicked"
    wake,         \* earliest clock reading at which the thread's sleep ends
    fgPc,         \* position of main's loop
    today,        \* main's local `today` / `_today`
    meds,         \* main's local `meds` (the copy list_today returned)
    name,         \* main's local `name`
    out           \* what the last step printed, wrote or returned

vars == <<medications, now, chan, tickerPc, wake, fgPc, today, meds, name, out>>

----------------------------------------------------------------------------
(* Bounds of the model *)

MaxClockSteps == 5      \* number of clock advances explored
MaxEntries == 2         \* total number of entries the store may hold
MaxTyped == 5           \* longest time string typed in ParseSpec

(* Program constants *)

TickInterval == 60      \* thread::sleep(Duration::from_secs(60))

----------------------------------------------------------------------------
(* The clock *)

SecondsPerDay == 24 * 60 * 60
ClockStep == TickInterval \div 2
ClockStart == SecondsPerDay - 3 * ClockStep     \* 23:58:30 of day 0
MaxNow == ClockStart + MaxClockSteps * ClockStep

DateKeys == <<"2098-12-31", "2099-01-01", "2099-01-02">>
Dates == {DateKeys[i] : i \in 1..Len(DateKeys)}

\* Local::now().format("%Y-%m-%d").to_string()
DateKey(t) == DateKeys[(t \div SecondsPerDay) + 1]

\* Local::now().time()
TimeOfDay(t) == t % SecondsPerDay

\* midnight of the day a date key names
DayStart(key) == ((CHOOSE i \in 1..Len(DateKeys) : DateKeys[i] = key) - 1) * SecondsPerDay

\* the minute (since midnight) a time of day lies in
MinuteOf(t) == t \div 60

----------------------------------------------------------------------------
(* Text input: str::trim, str::parse::<usize>, NaiveTime::parse_from_str *)

DigitChars == <<"0", "1", "2", "3", "4", "5", "6", "7", "8", "9">>
IsDigit(c) == \E i \in 1..10 : DigitChars[i] = c
DigitVal(c) == (CHOOSE i \in 1..10 : DigitChars[i] = c) - 1
IsSpace(c) == c \in {" ", "\n", "\t", "\r"}

RECURSIVE TrimStart(_)
TrimStart(s) ==
    IF s # <<>> /\ IsSpace(Head(s)) THEN TrimStart(Tail(s)) ELSE s

RECURSIVE TrimEnd(_)
TrimEnd(s) ==
    IF s # <<>> /\ IsSpace(s[Len(s)]) THEN TrimEnd(SubSeq(s, 1, Len(s) - 1)) ELSE s

Trim(s) == TrimEnd(TrimStart(s))

\* the longest run of digits at the front of s, at most max long
RECURSIVE DigitRun(_, _)
DigitRun(s, max) ==
    IF max > 0 /\ s # <<>> /\ IsDigit(Head(s))
    THEN 1 + DigitRun(Tail(s), max - 1)
    ELSE 0

RECURSIVE DecimalValue(_)
DecimalValue(s) ==
    IF s = <<>> THEN 0
    ELSE 10 * DecimalValue(SubSeq(s, 1, Len(s) - 1)) + DigitVal(s[Len(s)])

\* str::parse::<usize>: an optional "+", then one or more digits, nothing else
ParseUsize(s) ==
    LET body == IF s # <<>> /\ Head(s) = "+" THEN Tail(s) ELSE s
    IN  IF body # <<>> /\ DigitRun(body, Len(body)) = Len(body)
        THEN [ok |-> TRUE, value |-> DecimalValue(body)]
        ELSE [ok |-> FALSE, value |-> 0]

\* chrono's numeric item: leading white space skipped, then 1..width digits
ScanNumber(s, width) ==
    LET t == TrimStart(s)
        n == DigitRun(t, width)
    IN  IF n = 0
        THEN [ok |-> FALSE, value |-> 0, rest |-> t]
        ELSE [ok |-> TRUE, value |-> DecimalValue(SubSeq(t, 1, n)),
              rest |-> SubSeq(t, n + 1, Len(t))]

\* NaiveTime::parse_from_str(s, "%H:%M"): hour item, literal ":", minute
\* item, end of input; hour 0..23 and minute 0..59; seconds default to 0
ParseTime(s) ==
    LET h == ScanNumber(s, 2)
        colon == h.ok /\ h.rest # <<>> /\ Head(h.rest) = ":"
        m == IF colon THEN ScanNumber(Tail(h.rest), 2)
             ELSE [ok |-> FALSE, value |-> 0, rest |-> <<>>]
    IN  IF colon /\ m.ok /\ m.rest = <<>> /\ h.value <= 23 /\ m.value <= 59
        THEN [ok |-> TRUE, time |-> h.value * 3600 + m.value * 60]
        ELSE [ok |-> FALSE, time |-> 0]

\* lines a user may type (read_line keeps the newline)
Line(s) == s \o <<"\n">>

ChoiceInputs == {Line(<<"1">>), Line(<<"2">>), Line(<<"3">>), Line(<<"4">>),
                 Line(<<"5">>), Line(<<"9">>)}
NameInputs == {Line(<<"A", "s", "p", "i", "r", "i", "n">>)}
TimeInputs == {Line(<<"2", "3", ":", "5", "9">>), Line(<<"0", "0", ":", "0", "0">>),
               Line(<<"0", ":", "0", "0">>), Line(<<"2", "5", ":", "6", "1">>),
               Line(<<"n", "o", "o", "n">>)}
IndexInputs == {Line(<<"0">>), Line(<<"1">>), Line(<<"2">>), Line(<<"3">>),
                Line(<<"x">>)}

\* what line 138 makes of each of these time lines
TimeParses == [line \in TimeInputs |-> ParseTime(Trim(line))]

Names == {Trim(n) : n \in NameInputs} \cup {<<"Z", "i", "n", "c">>}
Times == {ParseTime(Trim(t)).time : t \in {u \in TimeInputs : ParseTime(Trim(u)).ok}}

----------------------------------------------------------------------------
(* struct Medication, struct MedicationSchedule and its methods *)

Medication(n, t, k) == [name |-> n, time |-> t, taken |-> k]

\* MedicationSchedule::new
new == [d \in {} |-> <<>>]

\* number of entries held, over all dates
RECURSIVE TotalEntriesOver(_, _)
TotalEntriesOver(m, keys) ==
    IF keys = {} THEN 0
    ELSE LET k == CHOOSE x \in keys : TRUE
         IN  Len(m[k]) + TotalEntriesOver(m, keys \ {k})

TotalEntries(m) == TotalEntriesOver(m, DOMAIN m)

\* add_medication that inserts at the front of the date's sequence
add_medication_front(m, date, medication) ==
    [k \in (DOMAIN m) \cup {date} |->
        IF k = date
        THEN <<medication>> \o (IF date \in DOMAIN m THEN m[date] ELSE <<>>)
        ELSE m[k]]

\* add_medication that creates the key of a new date and drops the entry
add_medication_key_only(m, date, medication) ==
    [k \in (DOMAIN m) \cup {date} |->
        IF k = date
        THEN IF date \in DOMAIN m THEN Append(m[date], medication) ELSE <<>>
        ELSE m[k]]

\* MedicationSchedule::add_medication
add_medication(m, date, medication) ==
    [k \in (DOMAIN m) \cup {date} |->
        IF k = date
        THEN Append(IF date \in DOMAIN m THEN m[date] ELSE <<>>, medication)
        ELSE m[k]]

\* MedicationSchedule::list_today, reading the clock at t
list_today(m, t) ==
    LET key == DateKey(t)
    IN  IF key \in DOMAIN m THEN m[key] ELSE <<>>

\* mark_taken that always marks the first entry of the date
mark_taken_first(m, date, index) ==
    IF date \in DOMAIN m
    THEN IF index < Len(m[date])
         THEN [store |-> [m EXCEPT ![date][1].taken = TRUE], result |-> "Ok"]
         ELSE [store |-> m, result |-> "InvalidIndex"]
    ELSE [store |-> m, result |-> "NotFound"]

\* mark_taken that clamps an index past the end to the last entry
mark_taken_clamped(m, date, index) ==
    IF date \in DOMAIN m
    THEN IF index < Len(m[date])
         THEN [store |-> [m EXCEPT ![date][index + 1].taken = TRUE], result |-> "Ok"]
         ELSE [store |-> [m EXCEPT ![date][Len(m[date])].taken = TRUE], result |-> "Ok"]
    ELSE [store |-> m, result |-> "NotFound"]

\* mark_taken that flips the flag instead of setting it
mark_taken_toggle(m, date, index) ==
    IF date \in DOMAIN m
    THEN IF index < Len(m[date])
         THEN [store |-> [m EXCEPT ![date][index + 1].taken = ~m[date][index + 1].taken],
               result |-> "Ok"]
         ELSE [store |-> m, result |-> "InvalidIndex"]
    ELSE [store |-> m, result |-> "NotFound"]

\* MedicationSchedule::mark_taken, index 0-based (usize)
mark_taken(m, date, index) ==
    IF date \in DOMAIN m
    THEN IF index < Len(m[date])
         THEN [store |-> [m EXCEPT ![date][index + 1].taken = TRUE], result |-> "Ok"]
         ELSE [store |-> m, result |-> "InvalidIndex"]
    ELSE [store |-> m, result |-> "NotFound"]

----------------------------------------------------------------------------
(* The store on its own: add_medication and mark_taken called with any     *)
(* date, entry and index.                                                  *)

Idle == [kind |-> "none"]

StoreInit ==
    /\ medications = new
    /\ now = ClockStart
    /\ chan = <<>>
    /\ tickerPc = "emit"
    /\ wake = ClockStart
    /\ fgPc = "loop"
    /\ today = ""
    /\ meds = <<>>
    /\ name = <<>>
    /\ out = Idle

StoreAdd ==
    \E d \in Dates, n \in Names, t \in Times, k \in BOOLEAN :
        /\ TotalEntries(medications) < MaxEntries
        /\ medications' = add_medication(medications, d, Medication(n, t, k))
        /\ out' = [kind |-> "add", date |-> d, entry |-> Medication(n, t, k),
                   before |-> medications]
        /\ UNCHANGED <<now, chan, tickerPc, wake, fgPc, today, meds, name>>

StoreMarkTaken ==
    \E d \in Dates, i \in 0..MaxEntries :
        LET r == mark_taken(medications, d, i)
        IN  /\ medications' = r.store
            /\ out' = [kind |-> "mark_taken", date |-> d, index |-> i,
                       result |-> r.result, before |-> medications]
            /\ UNCHANGED <<now, chan, tickerPc, wake, fgPc, today, meds, name>>

StoreNext == StoreAdd \/ StoreMarkTaken

StoreSpec == StoreInit /\ [][StoreNext]_vars

----------------------------------------------------------------------------
(* What main prints *)

\* NaiveTime::format("%H:%M")
FormatHM(t) ==
    LET hh == t \div 3600
        mm == (t % 3600) \div 60
    IN  <<DigitChars[(hh \div 10) + 1], DigitChars[(hh % 10) + 1], ":",
          DigitChars[(mm \div 10) + 1], DigitChars[(mm % 10) + 1]>>

\* rows that label an untaken entry whose time has passed as missed
Render_with_missed(list) ==
    [i \in 1..Len(list) |->
        [pos |-> i, name |-> list[i].name, time |-> FormatHM(list[i].time),
         label |-> IF list[i].taken THEN "Taken"
                   ELSE IF list[i].time < TimeOfDay(now) THEN "Missed"
                   ELSE "Pending"]]

\* the rows of "{}. {} at {} - {}" printed by options 2 and 3
Render(list) ==
    [i \in 1..Len(list) |->
        [pos |-> i, name |-> list[i].name, time |-> FormatHM(list[i].time),
         label |-> IF list[i].taken THEN "Taken" ELSE "Pending"]]

\* a reminder loop that does not look at the taken flag
RECURSIVE RemindedFrom_ignores_taken(_, _, _)
RemindedFrom_ignores_taken(list, j, current_time) ==
    IF j > Len(list) THEN <<>>
    ELSE (IF list[j].time <= current_time THEN <<j>> ELSE <<>>)
         \o RemindedFrom_ignores_taken(list, j + 1, current_time)

\* positions of `list`, from j on, for which the reminder loop prints
RECURSIVE RemindedFrom(_, _, _)
RemindedFrom(list, j, current_time) ==
    IF j > Len(list) THEN <<>>
    ELSE (IF list[j].time <= current_time /\ ~list[j].taken THEN <<j>> ELSE <<>>)
         \o RemindedFrom(list, j + 1, current_time)

\* "Reminder: It's time to take your medication: {} at {}"
Notice(med) == [name |-> med.name, time |-> FormatHM(med.time)]

----------------------------------------------------------------------------
(* MedicationSchedule::export_missed_doses *)

\* the orders in which a HashMap with key set S may be iterated
Orders(S) ==
    {o \in [1..Cardinality(S) -> S] : \A i, j \in 1..Cardinality(S) : o[i] = o[j] => i = j}

\* the entries in the order the nested loops visit them
RECURSIVE Visit(_, _, _)
Visit(m, order, j) ==
    IF j > Len(order) THEN <<>> ELSE m[order[j]] \o Visit(m, order, j + 1)

\* a `missed` vector that takes a dose due at the clock reading as missed
RECURSIVE MissedFrom_inclusive(_, _, _, _, _)
MissedFrom_inclusive(flat, j, k, t0, t1) ==
    IF j > Len(flat) THEN <<>>
    ELSE (IF ~flat[j].taken /\ flat[j].time <= (IF j <= k THEN t0 ELSE t1)
          THEN <<flat[j]>> ELSE <<>>)
         \o MissedFrom_inclusive(flat, j + 1, k, t0, t1)

\* the `missed` vector: entry j is compared with the clock read for it,
\* t0 for the first k entries visited and t1 for the rest
RECURSIVE MissedFrom(_, _, _, _, _)
MissedFrom(flat, j, k, t0, t1) ==
    IF j > Len(flat) THEN <<>>
    ELSE (IF ~flat[j].taken /\ flat[j].time < (IF j <= k THEN t0 ELSE t1)
          THEN <<flat[j]>> ELSE <<>>)
         \o MissedFrom(flat, j + 1, k, t0, t1)

----------------------------------------------------------------------------
(* main: the reminder thread, the clock and the menu loop *)

Init ==
    /\ medications = new
    /\ now = ClockStart
    /\ chan = <<>>
    /\ tickerPc = "emit"
    /\ wake = ClockStart
    /\ fgPc = "loop"
    /\ today = ""
    /\ meds = <<>>
    /\ name = <<>>
    /\ out = Idle

\* the local clock moves on
ClockAdvance ==
    /\ now < MaxNow
    /\ fgPc # "exited"
    /\ now' = now + ClockStep
    /\ UNCHANGED <<medications, chan, tickerPc, wake, fgPc, today, meds, name, out>>

\* a reminder thread that sends on a channel with room for one tick
TickerEmit_bounded ==
    /\ tickerPc = "emit"
    /\ fgPc # "exited"
    /\ \/ /\ Len(chan) < 1
          /\ chan' = Append(chan, [date |-> DateKey(now), time |-> TimeOfDay(now)])
          /\ tickerPc' = "sleep"
          /\ wake' = now + TickInterval
       \/ /\ fgPc = "ended"
          /\ tickerPc' = "panicked"
          /\ UNCHANGED <<chan, wake>>
    /\ UNCHANGED <<medications, now, fgPc, today, meds, name, out>>

\* reminder thread, lines 85-90: read the clock, tx.send(..).unwrap().
\* The channel is unbounded, so send never waits; it fails, and unwrap
\* panics the thread, only once main has dropped rx on its way out.
TickerEmit ==
    /\ tickerPc = "emit"
    /\ fgPc # "exited"
    /\ \/ /\ chan' = Append(chan, [date |-> DateKey(now), time |-> TimeOfDay(now)])
          /\ tickerPc' = "sleep"
          /\ wake' = now + TickInterval
       \/ /\ fgPc = "ended"
          /\ tickerPc' = "panicked"
          /\ UNCHANGED <<chan, wake>>
    /\ UNCHANGED <<medications, now, fgPc, today, meds, name, out>>

\* reminder thread, line 93: the sleep is over after at least 60 seconds
TickerWake ==
    /\ tickerPc = "sleep"
    /\ fgPc # "exited"
    /\ now >= wake
    /\ tickerPc' = "emit"
    /\ UNCHANGED <<medications, now, chan, wake, fgPc, today, meds, name, out>>

\* a poll that waits for a tick (rx.recv() in place of rx.try_recv())
FgPoll_blocking ==
    /\ fgPc = "loop"
    /\ chan # <<>>
    /\ LET tick == Head(chan)
           list == list_today(medications, now)
           reminded == RemindedFrom(list, 1, tick.time)
       IN  /\ chan' = Tail(chan)
           /\ out' = [kind |-> "reminders", tick |-> tick, at |-> now,
                      reminded |-> reminded,
                      notices |-> [i \in 1..Len(reminded) |-> Notice(list[reminded[i]])]]
    /\ fgPc' = "choice"
    /\ UNCHANGED <<medications, now, tickerPc, wake, today, meds, name>>

\* a poll that marks the entries it reminds of as taken
FgPoll_marking ==
    /\ fgPc = "loop"
    /\ IF chan # <<>>
       THEN LET tick == Head(chan)
                key == DateKey(now)
                list == list_today(medications, now)
                reminded == RemindedFrom(list, 1, tick.time)
            IN  /\ chan' = Tail(chan)
                /\ medications' =
                       IF reminded = <<>> THEN medications
                       ELSE [medications EXCEPT ![key] =
                                [i \in 1..Len(list) |->
                                    IF \E r \in 1..Len(reminded) : reminded[r] = i
                                    THEN [list[i] EXCEPT !.taken = TRUE]
                                    ELSE list[i]]]
                /\ out' = [kind |-> "reminders", tick |-> tick, at |-> now,
                           reminded |-> reminded,
                           notices |-> [i \in 1..Len(reminded) |-> Notice(list[reminded[i]])]]
       ELSE /\ chan' = chan
            /\ medications' = medications
            /\ out' = [kind |-> "no_tick"]
    /\ fgPc' = "choice"
    /\ UNCHANGED <<now, tickerPc, wake, today, meds, name>>

\* a poll that empties the channel and keeps only the oldest tick
FgPoll_drain_all ==
    /\ fgPc = "loop"
    /\ IF chan # <<>>
       THEN LET tick == Head(chan)
                list == list_today(medications, now)
                reminded == RemindedFrom(list, 1, tick.time)
            IN  /\ chan' = <<>>
                /\ out' = [kind |-> "reminders", tick |-> tick, at |-> now,
                           reminded |-> reminded,
                           notices |-> [i \in 1..Len(reminded) |-> Notice(list[reminded[i]])]]
       ELSE /\ chan' = chan
            /\ out' = [kind |-> "no_tick"]
    /\ fgPc' = "choice"
    /\ UNCHANGED <<medications, now, tickerPc, wake, today, meds, name>>

\* lines 98-115: rx.try_recv(), the reminders for a received tick, the menu
FgPoll ==
    /\ fgPc = "loop"
    /\ IF chan # <<>>
       THEN LET tick == Head(chan)
                list == list_today(medications, now)
                reminded == RemindedFrom(list, 1, tick.time)
            IN  /\ chan' = Tail(chan)
                /\ out' = [kind |-> "reminders", tick |-> tick, at |-> now,
                           reminded |-> reminded,
                           notices |-> [i \in 1..Len(reminded) |-> Notice(list[reminded[i]])]]
       ELSE /\ chan' = chan
            /\ out' = [kind |-> "no_tick"]
    /\ fgPc' = "choice"
    /\ UNCHANGED <<medications, now, tickerPc, wake, today, meds, name>>

\* lines 121-131: option "1" read, `_today` taken from the clock
FgChooseAdd ==
    /\ fgPc = "choice"
    /\ TotalEntries(medications) < MaxEntries
    /\ \E line \in ChoiceInputs :
        /\ Trim(line) = <<"1">>
        /\ today' = DateKey(now)
        /\ fgPc' = "add_name"
        /\ out' = [kind |-> "prompt"]
    /\ UNCHANGED <<medications, now, chan, tickerPc, wake, meds, name>>

\* lines 129-131: the name is read and trimmed
FgAddName ==
    /\ fgPc = "add_name"
    /\ \E line \in NameInputs :
        /\ name' = Trim(line)
        /\ fgPc' = "add_time"
        /\ out' = [kind |-> "prompt"]
    /\ UNCHANGED <<medications, now, chan, tickerPc, wake, today, meds>>

\* an add that stores midnight when the time string does not parse
FgAddTime_keeps_unparsed ==
    /\ fgPc = "add_time"
    /\ \E line \in TimeInputs :
        LET parsed == TimeParses[line]
        IN  /\ medications' = add_medication(medications, today,
                                   Medication(name, parsed.time, FALSE))
            /\ out' = [kind |-> IF parsed.ok THEN "added" ELSE "invalid_time",
                       input |-> Trim(line)]
    /\ fgPc' = "loop"
    /\ today' = ""
    /\ name' = <<>>
    /\ UNCHANGED <<now, chan, tickerPc, wake, meds>>

\* lines 135-151: the time string is read and parsed, the entry added
FgAddTime ==
    /\ fgPc = "add_time"
    /\ \E line \in TimeInputs :
        LET parsed == TimeParses[line]
        IN  IF parsed.ok
            THEN /\ medications' = add_medication(medications, today,
                                        Medication(name, parsed.time, FALSE))
                 /\ out' = [kind |-> "added", input |-> Trim(line)]
            ELSE /\ medications' = medications
                 /\ out' = [kind |-> "invalid_time", input |-> Trim(line)]
    /\ fgPc' = "loop"
    /\ today' = ""
    /\ name' = <<>>
    /\ UNCHANGED <<now, chan, tickerPc, wake, meds>>

\* lines 153-171: option "2"
FgListToday ==
    /\ fgPc = "choice"
    /\ \E line \in ChoiceInputs :
        /\ Trim(line) = <<"2">>
        /\ out' = [kind |-> "list", at |-> now,
                   rows |-> Render(list_today(medications, now))]
    /\ fgPc' = "loop"
    /\ UNCHANGED <<medications, now, chan, tickerPc, wake, today, meds, name>>

\* lines 172-173: option "3" read, `today` taken from the clock
FgChooseMark ==
    /\ fgPc = "choice"
    /\ \E line \in ChoiceInputs :
        /\ Trim(line) = <<"3">>
        /\ today' = DateKey(now)
        /\ fgPc' = "mark_list"
        /\ out' = [kind |-> "prompt"]
    /\ UNCHANGED <<medications, now, chan, tickerPc, wake, meds, name>>

\* lines 174-193: list_today reads the clock again; empty list: continue
FgMarkList ==
    /\ fgPc = "mark_list"
    /\ LET list == list_today(medications, now)
       IN  IF list = <<>>
           THEN /\ out' = [kind |-> "nothing_to_mark", key |-> today,
                           date |-> DateKey(now)]
                /\ fgPc' = "loop"
                /\ today' = ""
                /\ meds' = <<>>
           ELSE /\ out' = [kind |-> "mark_listing", date |-> DateKey(now),
                           at |-> now, rows |-> Render(list)]
                /\ fgPc' = "mark_index"
                /\ today' = today
                /\ meds' = list
    /\ UNCHANGED <<medications, now, chan, tickerPc, wake, name>>

\* a mark that passes the 1-based number on as the index
FgMarkIndex_one_based ==
    /\ fgPc = "mark_index"
    /\ \E line \in IndexInputs :
        LET parsed == ParseUsize(Trim(line))
        IN  IF parsed.ok /\ parsed.value > 0 /\ parsed.value <= Len(meds)
            THEN LET r == mark_taken(medications, today, parsed.value)
                 IN  /\ medications' = r.store
                     /\ out' = [kind |-> "mark", input |-> Trim(line), date |-> today,
                                index |-> parsed.value, result |-> r.result]
            ELSE /\ medications' = medications
                 /\ out' = [kind |-> "invalid_number", input |-> Trim(line)]
    /\ fgPc' = "loop"
    /\ today' = ""
    /\ meds' = <<>>
    /\ UNCHANGED <<now, chan, tickerPc, wake, name>>

\* a mark that takes the date from the clock again when the number is read
FgMarkIndex_rereads_date ==
    /\ fgPc = "mark_index"
    /\ \E line \in IndexInputs :
        LET parsed == ParseUsize(Trim(line))
        IN  IF parsed.ok /\ parsed.value > 0 /\ parsed.value <= Len(meds)
            THEN LET r == mark_taken(medications, DateKey(now), parsed.value - 1)
                 IN  /\ medications' = r.store
                     /\ out' = [kind |-> "mark", input |-> Trim(line),
                                date |-> DateKey(now),
                                index |-> parsed.value - 1, result |-> r.result]
            ELSE /\ medications' = medications
                 /\ out' = [kind |-> "invalid_number", input |-> Trim(line)]
    /\ fgPc' = "loop"
    /\ today' = ""
    /\ meds' = <<>>
    /\ UNCHANGED <<now, chan, tickerPc, wake, name>>

\* lines 195-208: the number is read, parsed, checked and used
FgMarkIndex ==
    /\ fgPc = "mark_index"
    /\ \E line \in IndexInputs :
        LET parsed == ParseUsize(Trim(line))
        IN  IF parsed.ok /\ parsed.value > 0 /\ parsed.value <= Len(meds)
            THEN LET r == mark_taken(medications, today, parsed.value - 1)
                 IN  /\ medications' = r.store
                     /\ out' = [kind |-> "mark", input |-> Trim(line), date |-> today,
                                index |-> parsed.value - 1, result |-> r.result]
            ELSE /\ medications' = medications
                 /\ out' = [kind |-> "invalid_number", input |-> Trim(line)]
    /\ fgPc' = "loop"
    /\ today' = ""
    /\ meds' = <<>>
    /\ UNCHANGED <<now, chan, tickerPc, wake, name>>

\* lines 210-212: option "4" read
FgChooseExport ==
    /\ fgPc = "choice"
    /\ \E line \in ChoiceInputs :
        /\ Trim(line) = <<"4">>
        /\ fgPc' = "export_path"
        /\ out' = [kind |-> "prompt"]
    /\ UNCHANGED <<medications, now, chan, tickerPc, wake, today, meds, name>>

\* lines 213-219 and 57-74: the path is read and export_missed_doses runs.
\* The clock is read once per entry; it may move on once during the scan.
FgExport ==
    /\ fgPc = "export_path"
    /\ \E order \in Orders(DOMAIN medications), io \in {"ok", "create_failed", "write_failed"} :
        LET flat == Visit(medications, order, 1)
        IN  \E k \in 0..Len(flat) :
            LET later == IF k < Len(flat) THEN now + ClockStep ELSE now
                missed == MissedFrom(flat, 1, k, TimeOfDay(now), TimeOfDay(later))
            IN  /\ later <= MaxNow
                /\ now' = later
                /\ \E written \in 0..Len(missed) :
                    /\ io = "ok" => written = Len(missed)
                    /\ io = "create_failed" => written = 0
                    /\ out' = [kind |-> "export", result |-> io, from |-> now,
                               to |-> later,
                               created |-> (io # "create_failed"),
                               sink |-> SubSeq(missed, 1, written)]
    /\ fgPc' = "loop"
    /\ UNCHANGED <<medications, chan, tickerPc, wake, today, meds, name>>

\* lines 221-224: option "5", break
FgExit ==
    /\ fgPc = "choice"
    /\ \E line \in ChoiceInputs :
        /\ Trim(line) = <<"5">>
        /\ fgPc' = "ended"
        /\ out' = [kind |-> "goodbye"]
    /\ UNCHANGED <<medications, now, chan, tickerPc, wake, today, meds, name>>

\* line 230 (or the end of a panic): the process, with the reminder thread, ends
FgReturn ==
    /\ fgPc = "ended"
    /\ fgPc' = "exited"
    /\ UNCHANGED <<medications, now, chan, tickerPc, wake, today, meds, name, out>>

\* lines 225-227: any other line
FgInvalidChoice ==
    /\ fgPc = "choice"
    /\ \E line \in ChoiceInputs :
        /\ Trim(line) \notin {<<"1">>, <<"2">>, <<"3">>, <<"4">>, <<"5">>}
        /\ out' = [kind |-> "invalid_choice"]
    /\ fgPc' = "loop"
    /\ UNCHANGED <<medications, now, chan, tickerPc, wake, today, meds, name>>

\* positions of main at which it waits for a line of input
ReadingPcs == {"choice", "add_name", "add_time", "mark_index", "export_path"}

\* lines 121, 130, 136, 196-198, 214: read_line returns Err (the bytes read
\* are not UTF-8, or the read fails) and expect("Failed to read input")
\* panics main: the loop is left and the process is on its way out
FgReadFails ==
    /\ fgPc \in ReadingPcs
    /\ fgPc' = "ended"
    /\ out' = [kind |-> "panic"]
    /\ today' = ""
    /\ meds' = <<>>
    /\ name' = <<>>
    /\ UNCHANGED <<medications, now, chan, tickerPc, wake>>

Ticker == TickerEmit \/ TickerWake

----------------------------------------------------------------------------
(* The time prompt on its own (lines 135-151): any string of up to MaxTyped *)
(* characters is typed at "Enter time (HH:MM): " and handled.               *)

TypedChars == {"0", "1", "2", "5", "6", "8", ":"}

ParseInit ==
    /\ medications = new
    /\ now = ClockStart
    /\ chan = <<>>
    /\ tickerPc = "emit"
    /\ wake = ClockStart
    /\ fgPc = "add_time"
    /\ today = DateKey(ClockStart)
    /\ meds = <<>>
    /\ name = Trim(CHOOSE n \in NameInputs : TRUE)
    /\ out = [kind |-> "typing", input |-> <<>>]

\* one more character of the line
TypeChar ==
    /\ fgPc = "add_time"
    /\ out.kind = "typing"
    /\ Len(out.input) < MaxTyped
    /\ \E c \in TypedChars : out' = [kind |-> "typing", input |-> Append(out.input, c)]
    /\ UNCHANGED <<medications, now, chan, tickerPc, wake, fgPc, today, meds, name>>

\* lines 136-151 on the line typed
ParseTyped ==
    /\ fgPc = "add_time"
    /\ out.kind = "typing"
    /\ LET line == Line(out.input)
           parsed == ParseTime(Trim(line))
       IN  IF parsed.ok
           THEN /\ medications' = add_medication(medications, today,
                                       Medication(name, parsed.time, FALSE))
                /\ out' = [kind |-> "added", input |-> Trim(line)]
           ELSE /\ medications' = medications
                /\ out' = [kind |-> "invalid_time", input |-> Trim(line)]
    /\ fgPc' = "loop"
    /\ today' = ""
    /\ name' = <<>>
    /\ UNCHANGED <<now, chan, tickerPc, wake, meds>>

ParseNext == TypeChar \/ ParseTyped

ParseSpec == ParseInit /\ [][ParseNext]_vars

Foreground ==
    \/ FgPoll
    \/ FgChooseAdd \/ FgAddName \/ FgAddTime
    \/ FgListToday
    \/ FgChooseMark \/ FgMarkList \/ FgMarkIndex
    \/ FgChooseExport \/ FgExport
    \/ FgExit \/ FgReturn
    \/ FgInvalidChoice
    \/ FgReadFails

Next == ClockAdvance \/ Ticker \/ Foreground

Spec == Init /\ [][Next]_vars

\* the reminder thread is a thread of its own: it is scheduled whenever it
\* can run.  Nothing makes the user type.
FairSpec == Spec /\ WF_vars(TickerEmit) /\ WF_vars(TickerWake)

\* in addition the user keeps typing: main keeps taking steps
LoopFairSpec == FairSpec /\ WF_vars(Foreground)

----------------------------------------------------------------------------
(* Properties of the store (StoreSpec) *)

\* the call recorded in `out` was mark_taken(d, i) with d present and i in range
MarkCallValid ==
    /\ out.kind = "mark_taken"
    /\ out.date \in DOMAIN out.before
    /\ out.index < Len(out.before[out.date])

\* C1: mark_taken(d, i) with d present and i within bounds returns Ok, sets
\* taken on entry i of d and changes nothing else: no other taken flag, no
\* name, no time, no key, no length.
C1_MarkTakenSetsOneFlag ==
    MarkCallValid =>
        /\ out.result = "Ok"
        /\ DOMAIN medications = DOMAIN out.before
        /\ \A d \in DOMAIN out.before :
            /\ Len(medications[d]) = Len(out.before[d])
            /\ \A j \in 1..Len(out.before[d]) :
                /\ medications[d][j].name = out.before[d][j].name
                /\ medications[d][j].time = out.before[d][j].time
                /\ medications[d][j].taken =
                       IF d = out.date /\ j = out.index + 1
                       THEN TRUE
                       ELSE out.before[d][j].taken

\* a valid call on the second entry of a date whose two entries were untaken
C1_Witness ==
    /\ MarkCallValid
    /\ out.index = 1
    /\ ~out.before[out.date][1].taken
    /\ ~out.before[out.date][2].taken
    /\ medications[out.date][2].taken

\* C2: mark_taken(d, i) returns NotFound when d has no sequence and
\* InvalidIndex when d has one but i is not below its length; in both cases
\* the store is as it was.
C2_MarkTakenFailures ==
    out.kind = "mark_taken" =>
        /\ out.date \notin DOMAIN out.before =>
               out.result = "NotFound" /\ medications = out.before
        /\ (out.date \in DOMAIN out.before /\ out.index >= Len(out.before[out.date])) =>
               out.result = "InvalidIndex" /\ medications = out.before

\* an index just past the end of a date with an untaken entry, in a store
\* that lacks another date
C2_Witness ==
    /\ out.kind = "mark_taken"
    /\ out.date \in DOMAIN out.before
    /\ out.index = Len(out.before[out.date])
    /\ ~out.before[out.date][out.index].taken
    /\ out.result = "InvalidIndex"
    /\ "2099-01-01" \notin DOMAIN medications

\* C3: add(d, e) leaves the sequence of d as it was (empty if d was absent)
\* with e appended last, and the sequences of all other dates unchanged.
C3_AddAppends ==
    out.kind = "add" =>
        LET prev == IF out.date \in DOMAIN out.before THEN out.before[out.date] ELSE <<>>
        IN  /\ DOMAIN medications = DOMAIN out.before \cup {out.date}
            /\ Len(medications[out.date]) = Len(prev) + 1
            /\ medications[out.date][Len(prev) + 1] = out.entry
            /\ \A j \in 1..Len(prev) : medications[out.date][j] = prev[j]
            /\ \A d \in DOMAIN out.before \ {out.date} : medications[d] = out.before[d]

\* an entry added behind a different entry of the same date
C3_Witness ==
    /\ out.kind = "add"
    /\ out.date \in DOMAIN out.before
    /\ out.before[out.date] # <<>>
    /\ out.before[out.date][1] # out.entry
    /\ medications[out.date][2] = out.entry

----------------------------------------------------------------------------
(* Properties of the program (Spec, FairSpec) *)

EntryValues == {Medication(n, t, k) : n \in Names, t \in Times, k \in BOOLEAN}

CountSeq(s, e) == Cardinality({j \in 1..Len(s) : s[j] = e})

RECURSIVE CountOver(_, _, _)
CountOver(m, keys, e) ==
    IF keys = {} THEN 0
    ELSE LET k == CHOOSE x \in keys : TRUE
         IN  CountSeq(m[k], e) + CountOver(m, keys \ {k}, e)

CountStore(m, e) == CountOver(m, DOMAIN m, e)

InSeq(x, s) == \E j \in 1..Len(s) : s[j] = x

\* C4: an export made at time of day t (the clock stands at t for the whole
\* scan) and written without I/O failure holds exactly the entries of all
\* dates that are untaken and scheduled before t; no export ever holds a
\* taken entry or an entry scheduled at or after t, and with nothing missed
\* the sink has no data record.
C4_ExportWritesMissed ==
    out.kind = "export" =>
        /\ \A j \in 1..Len(out.sink) : ~out.sink[j].taken
        /\ out.from = out.to =>
            LET t == TimeOfDay(out.from)
            IN  /\ \A j \in 1..Len(out.sink) : out.sink[j].time < t
                /\ out.result = "ok" =>
                       \A e \in EntryValues :
                           CountSeq(out.sink, e) =
                               IF ~e.taken /\ e.time < t
                               THEN CountStore(medications, e)
                               ELSE 0
                /\ (\A e \in EntryValues :
                        (~e.taken /\ e.time < t) => CountStore(medications, e) = 0)
                       => out.sink = <<>>

\* a successful export that holds an entry of another date than today and
\* leaves out an untaken entry of today that is not yet due
C4_Witness ==
    /\ out.kind = "export"
    /\ out.result = "ok"
    /\ out.from = out.to
    /\ \E d \in DOMAIN medications \ {DateKey(out.from)} :
           \E j \in 1..Len(medications[d]) : InSeq(medications[d][j], out.sink)
    /\ \E e \in EntryValues :
           /\ ~e.taken
           /\ InSeq(e, list_today(medications, out.from))
           /\ ~InSeq(e, out.sink)

\* C5: an export made within one clock minute holds no dose scheduled for
\* that minute.
C5_DueMinuteNotExported ==
    (out.kind = "export" /\ MinuteOf(TimeOfDay(out.from)) = MinuteOf(TimeOfDay(out.to))) =>
        \A j \in 1..Len(out.sink) :
            MinuteOf(out.sink[j].time) # MinuteOf(TimeOfDay(out.from))

\* C6: the store changes only in the step that adds a parsed entry and in the
\* step in which mark_taken returns Ok; ticker steps, the reminder check,
\* listing, export, invalid input and exit leave it as it is.
C6_StoreChangesOnlyByAddAndMark ==
    [][medications' # medications =>
          \/ fgPc = "add_time" /\ out'.kind = "added"
          \/ fgPc = "mark_index" /\ out'.kind = "mark" /\ out'.result = "Ok"]_vars

\* reminders were printed for an entry that is still untaken, next to an
\* entry that was marked taken before
C6_Witness ==
    /\ out.kind = "reminders"
    /\ out.reminded # <<>>
    /\ LET list == list_today(medications, out.at)
       IN  /\ \A r \in 1..Len(out.reminded) : ~list[out.reminded[r]].taken
           /\ \E i \in 1..Len(list) : list[i].taken

\* C7 as stated: a notice is printed for an entry of today's list exactly
\* when it is untaken, its time has not passed at the moment of the check
\* and its time is at most the tick's time.
C7_RemindedIffDuePending ==
    out.kind = "reminders" =>
        LET list == list_today(medications, out.at)
        IN  \A i \in 1..Len(list) :
                InSeq(i, out.reminded) <=>
                    /\ ~list[i].taken
                    /\ list[i].time >= TimeOfDay(out.at)
                    /\ list[i].time <= out.tick.time

\* C7 amended: a notice is printed for an entry of today's list exactly when
\* it is untaken and its time is at most the tick's time, whether or not
\* that time has passed; never for a taken entry; one notice per such
\* entry, in stored order.
C7_RemindedIffUntakenAndDue ==
    out.kind = "reminders" =>
        LET list == list_today(medications, out.at)
        IN  /\ \A i \in 1..Len(list) :
                   InSeq(i, out.reminded) <=>
                       (~list[i].taken /\ list[i].time <= out.tick.time)
            /\ \A a, b \in 1..Len(out.reminded) :
                   a < b => out.reminded[a] < out.reminded[b]
            /\ Len(out.notices) = Len(out.reminded)
            /\ \A a \in 1..Len(out.reminded) :
                   /\ out.reminded[a] \in 1..Len(list)
                   /\ out.notices[a].name = list[out.reminded[a]].name
                   /\ out.notices[a].time = FormatHM(list[out.reminded[a]].time)

\* a notice was printed for an entry whose time had passed, and none for a
\* taken entry that was due at the tick
C7_Witness ==
    /\ out.kind = "reminders"
    /\ LET list == list_today(medications, out.at)
       IN  /\ \E r \in 1..Len(out.reminded) :
                  list[out.reminded[r]].time < TimeOfDay(out.at)
           /\ \E i \in 1..Len(list) :
                  /\ list[i].taken
                  /\ list[i].time <= out.tick.time
                  /\ ~InSeq(i, out.reminded)

\* C8: a step that takes ticks from the channel takes exactly the oldest
\* one, and it is the poll at the top of the loop, which ends at the menu
\* prompt; the poll can be taken whatever the channel holds, and main can
\* always step unless it is reading a line of input (or has exited).
C8_PollNeverWaits ==
    /\ [](fgPc = "loop" => ENABLED FgPoll)
    /\ []((fgPc \notin ReadingPcs /\ fgPc # "exited") => ENABLED Foreground)
    /\ [][Len(chan') < Len(chan) =>
             /\ chan' = Tail(chan)
             /\ fgPc = "loop"
             /\ fgPc' = "choice"]_vars
    /\ [][(fgPc = "loop" /\ fgPc' # fgPc /\ chan = <<>>) =>
             (fgPc' = "choice" /\ chan' = <<>> /\ out'.kind = "no_tick")]_vars

\* main is at the menu prompt after a poll that took one tick and left one
C8_Witness ==
    /\ fgPc = "choice"
    /\ out.kind = "reminders"
    /\ Len(chan) >= 1

\* the menu loop has not been left
LoopRunning == fgPc \notin {"ended", "exited"}

\* C9: while the process lives the reminder thread can always send when it
\* is about to, whatever the channel holds and wherever main is; and as long
\* as the menu loop runs, a thread about to send gets to its sleep and a
\* thread whose sleep is over gets to its next send.
C9_TickerNeverStalled ==
    /\ []((tickerPc = "emit" /\ fgPc # "exited") => ENABLED TickerEmit)
    /\ ((tickerPc = "emit" /\ LoopRunning) ~> (tickerPc = "sleep" \/ ~LoopRunning))
    /\ ((tickerPc = "sleep" /\ now >= wake /\ LoopRunning)
           ~> (tickerPc = "emit" \/ ~LoopRunning))

\* two ticks wait in the channel while main is at the menu prompt
C9_Witness ==
    /\ fgPc = "choice"
    /\ Len(chan) >= 2
    /\ tickerPc = "sleep"

\* C10: when reminders are printed for a tick, the clock is at most one tick
\* interval past the tick's time stamp.
C10_TickAtMostOneIntervalOld ==
    (out.kind = "reminders" /\ out.reminded # <<>>) =>
        out.at - (DayStart(out.tick.date) + out.tick.time) <= TickInterval

\* C11: every date key of the schedule maps to a sequence with at least one
\* entry, and no step removes a key or shortens a sequence.
C11_KeysMapToNonEmpty ==
    /\ [](\A d \in DOMAIN medications : Len(medications[d]) >= 1)
    /\ [][\A d \in DOMAIN medications :
             /\ d \in DOMAIN medications'
             /\ Len(medications'[d]) >= Len(medications[d])]_vars

\* entries under two dates, one of them marked taken
C11_Witness ==
    /\ Cardinality(DOMAIN medications) = 2
    /\ \E d \in DOMAIN medications :
           \E j \in 1..Len(medications[d]) : medications[d][j].taken

\* C12: the step that reads the time string of option 1 ends at the top of
\* the loop; if the string does not parse it reports the error and leaves
\* the store as it is; if it parses, the store gains exactly one entry, with
\* the name read, the parsed time and taken = false, at the end of the
\* sequence of `_today`, the date key read from the clock when option 1 was
\* chosen, and nothing else changes.
C12_AddMedicationStep ==
    /\ [][(fgPc = "choice" /\ fgPc' = "add_name") => today' = DateKey(now)]_vars
    /\ [][(fgPc = "add_name" /\ fgPc' = "add_time") => today' = today]_vars
    /\ [][(fgPc = "add_time" /\ fgPc' # fgPc) =>
             /\ out'.kind \in {"added", "invalid_time", "panic"}
             /\ out'.kind = "panic" => medications' = medications
             /\ out'.kind # "panic" =>
                    LET parsed == ParseTime(out'.input)
                        prev == IF today \in DOMAIN medications
                                THEN medications[today] ELSE <<>>
                    IN  /\ fgPc' = "loop"
                        /\ out'.kind = IF parsed.ok THEN "added" ELSE "invalid_time"
                        /\ ~parsed.ok => medications' = medications
                        /\ parsed.ok =>
                               /\ DOMAIN medications' = DOMAIN medications \cup {today}
                               /\ Len(medications'[today]) = Len(prev) + 1
                               /\ \A j \in 1..Len(prev) : medications'[today][j] = prev[j]
                               /\ medications'[today][Len(prev) + 1] =
                                      [name |-> name, time |-> parsed.time, taken |-> FALSE]
                               /\ \A d \in DOMAIN medications \ {today} :
                                      medications'[d] = medications[d]]_vars

\* an entry was just added behind an entry that is already taken
C12_Witness ==
    /\ out.kind = "added"
    /\ fgPc = "loop"
    /\ \E d \in DOMAIN medications :
           /\ Len(medications[d]) = 2
           /\ medications[d][1].taken
           /\ ~medications[d][2].taken

\* C13: in option 3 with `count` entries listed (count > 0), a number n with
\* 1 <= n <= count leads to mark_taken(today, n - 1) and the entry shown at
\* position n is taken afterwards; 0, a number above count or a line that is
\* no number reports an error and leaves the store as it is; with nothing
\* to list the command goes back to the top of the loop without reading a
\* number and without changing the store.
C13_MarkTakenStep ==
    /\ [][(fgPc = "mark_list" /\ fgPc' # fgPc) =>
             /\ medications' = medications
             /\ IF list_today(medications, now) = <<>>
                THEN fgPc' = "loop" /\ out'.kind = "nothing_to_mark"
                ELSE /\ fgPc' = "mark_index"
                     /\ meds' = list_today(medications, now)
                     /\ out'.kind = "mark_listing"]_vars
    /\ [](fgPc = "mark_index" => Len(meds) > 0 /\ out.kind = "mark_listing")
    /\ [][(fgPc = "mark_index" /\ fgPc' # fgPc /\ out'.kind # "panic") =>
             LET parsed == ParseUsize(out'.input)
             IN  /\ fgPc' = "loop"
                 /\ IF parsed.ok /\ 1 <= parsed.value /\ parsed.value <= Len(meds)
                    THEN /\ out'.kind = "mark"
                         /\ out'.date = today
                         /\ out'.index = parsed.value - 1
                         /\ out.rows[parsed.value].pos = parsed.value
                         /\ out.date \in DOMAIN medications'
                         /\ parsed.value <= Len(medications'[out.date])
                         /\ medications'[out.date][parsed.value].taken
                         /\ medications'[out.date][parsed.value].name
                                = out.rows[parsed.value].name
                    ELSE /\ out'.kind = "invalid_number"
                         /\ medications' = medications]_vars

\* the second of two listed entries was marked, the first is still untaken
C13_Witness ==
    /\ out.kind = "mark"
    /\ out.result = "Ok"
    /\ out.index = 1
    /\ ~medications[out.date][1].taken
    /\ medications[out.date][2].taken

\* C14: the menu loop is left only by the step that reads option 5; every
\* other step of main out of a reading position goes on inside the loop,
\* and once the loop is left main takes no further step of it.
C14_OnlyExitEndsLoop ==
    /\ [][(LoopRunning /\ ~LoopRunning') =>
             (fgPc = "choice" /\ out'.kind = "goodbye")]_vars
    /\ [][~LoopRunning => (~LoopRunning' /\ medications' = medications
                            /\ out' = out)]_vars

\* C15: an entry that is taken stays at its position, unchanged and taken,
\* in every later state; and no export, whenever it is made, holds a taken
\* entry or more copies of an untaken entry than the store holds untaken.
C15_TakenStaysTakenAndOut ==
    /\ [][\A d \in DOMAIN medications : \A j \in 1..Len(medications[d]) :
             medications[d][j].taken =>
                 /\ d \in DOMAIN medications'
                 /\ j <= Len(medications'[d])
                 /\ medications'[d][j] = medications[d][j]]_vars
    /\ [](out.kind = "export" =>
             /\ \A j \in 1..Len(out.sink) : ~out.sink[j].taken
             /\ \A e \in EntryValues :
                    ~e.taken => CountSeq(out.sink, e) <= CountStore(medications, e))

\* an export that holds a missed entry and leaves out a taken entry whose
\* time has passed as well
C15_Witness ==
    /\ out.kind = "export"
    /\ out.result = "ok"
    /\ out.from = out.to
    /\ out.sink # <<>>
    /\ \E e \in EntryValues :
           /\ e.taken
           /\ e.time < TimeOfDay(out.from)
           /\ CountStore(medications, e) > 0
           /\ ~InSeq([e EXCEPT !.taken = FALSE], out.sink)

\* a time string in strict 24-hour HH:MM form, hour and minute zero-padded
StrictHHMM(s) ==
    /\ Len(s) = 5
    /\ IsDigit(s[1]) /\ IsDigit(s[2]) /\ s[3] = ":" /\ IsDigit(s[4]) /\ IsDigit(s[5])
    /\ 10 * DigitVal(s[1]) + DigitVal(s[2]) <= 23
    /\ 10 * DigitVal(s[4]) + DigitVal(s[5]) <= 59

\* C16: the time string typed at the prompt is accepted, and an entry
\* added, exactly when it is strict zero-padded 24-hour HH:MM; any other
\* string is reported as invalid and adds nothing.
C16_AcceptedIffStrictHHMM ==
    out.kind \in {"added", "invalid_time"} =>
        /\ (out.kind = "added") <=> StrictHHMM(out.input)
        /\ TotalEntries(medications) = IF StrictHHMM(out.input) THEN 1 ELSE 0

\* C17: the rows printed by option 2 and by the listing of option 3 are the
\* entries of today's sequence in stored order, numbered from 1, each labelled
\* Taken if its taken flag is set and Pending otherwise, whatever the clock
\* reads, so also for an untaken entry whose time has passed.
C17_LabelFromTakenOnly ==
    out.kind \in {"list", "mark_listing"} =>
        LET list == list_today(medications, out.at)
        IN  /\ Len(out.rows) = Len(list)
            /\ \A i \in 1..Len(list) :
                   /\ out.rows[i].pos = i
                   /\ out.rows[i].name = list[i].name
                   /\ out.rows[i].label \in {"Taken", "Pending"}
                   /\ (out.rows[i].label = "Taken") <=> list[i].taken

\* option 2 listed a taken entry and an untaken one whose time had passed,
\* the latter as Pending
C17_Witness ==
    /\ out.kind = "list"
    /\ Len(out.rows) = 2
    /\ LET list == list_today(medications, out.at)
       IN  /\ \E i \in 1..2 : out.rows[i].label = "Taken"
           /\ \E i \in 1..2 :
                  /\ out.rows[i].label = "Pending"
                  /\ list[i].time < TimeOfDay(out.at)

\* C18: a reminder is printed for an entry only if the entry's time has been
\* reached on the date whose entries are looked up: its time is at most the
\* time of day at the moment of printing.
C18_RemindedOnlyWhenDue ==
    out.kind = "reminders" =>
        LET list == list_today(medications, out.at)
        IN  \A r \in 1..Len(out.reminded) :
                list[out.reminded[r]].time <= TimeOfDay(out.at)

\* the instant a tick was stamped
TickInstant(tick) == DayStart(tick.date) + tick.time

\* C19: the channel changes only by the reminder thread appending the tick
\* it has just stamped and by the poll removing the oldest tick, which is
\* the one the poll handles; the ticks waiting are in the order of their
\* time stamps; and if main keeps taking steps, every tick in the channel is
\* drained unless the loop is left: again and again the oldest tick is
\* removed, or the channel is empty, or the loop has ended (with removal
\* only at the head, that reaches every waiting tick).
C19_TicksFifoAndDrained ==
    /\ [][chan' # chan =>
             \/ /\ tickerPc = "emit"
                /\ chan' = Append(chan, [date |-> DateKey(now), time |-> TimeOfDay(now)])
             \/ /\ chan # <<>>
                /\ chan' = Tail(chan)
                /\ out'.kind = "reminders"
                /\ out'.tick = Head(chan)]_vars
    /\ [](\A i, j \in 1..Len(chan) :
             i < j => TickInstant(chan[i]) < TickInstant(chan[j]))
    /\ \/ []<>(chan = <<>> \/ ~LoopRunning)
       \/ []<><<chan # <<>> /\ chan' = Tail(chan)>>_vars

\* the oldest of three waiting ticks was drained, the two younger ones wait
C19_Witness ==
    /\ out.kind = "reminders"
    /\ Len(chan) = 2
    /\ TickInstant(out.tick) < TickInstant(chan[1])
    /\ LoopRunning

\* C20: the entry a MarkTaken command marks is in the sequence of the date
\* whose entries were listed and whose length bounded the number: while the
\* number is awaited the key read on line 173 is the date list_today looked
\* up and the listed entries are that key's sequence, and a mark is made
\* under that date, succeeds and sets the flag of the listed entry. When the
\* date changes between the two reads of the clock, list_today finds
\* nothing under the new date and nothing is marked.
C20_MarkedEntryIsOfListedDate ==
    /\ [](fgPc = "mark_index" =>
             /\ out.kind = "mark_listing"
             /\ today = out.date
             /\ today \in DOMAIN medications
             /\ meds = medications[today])
    /\ [][(fgPc = "mark_index" /\ out'.kind = "mark") =>
             /\ out'.date = out.date
             /\ out'.result = "Ok"
             /\ out'.index + 1 \in 1..Len(meds)
             /\ medications'[out.date][out'.index + 1].taken
             /\ medications'[out.date][out'.index + 1].name
                    = meds[out'.index + 1].name]_vars
    /\ [][(fgPc = "mark_list" /\ fgPc' # fgPc /\ today # DateKey(now)) =>
             /\ out'.kind = "nothing_to_mark"
             /\ medications' = medications]_vars

\* the date changed between line 173 and list_today: entries are stored
\* under the key read first, none under the date looked up, nothing marked
C20_Witness ==
    /\ out.kind = "nothing_to_mark"
    /\ out.key # out.date
    /\ out.key \in DOMAIN medications
    /\ \E i \in 1..Len(medications[out.key]) : ~medications[out.key][i].taken

====
